---- MODULE Spec2Model ----
(***************************************************************************)
(* Model of the racegate node role state machine                          *)
(* (src/racegate/src/app/mod.rs) driven by the fixed-period loop of       *)
(* src/src/main.rs.  One step of the model is one pass of that loop: the  *)
(* sleep (time advances) followed by one App::update.                     *)
(*                                                                         *)
(* Time is counted in whole seconds, the unit of TIMEOUT; a tick is       *)
(* atomic at that resolution, so every clock read of one tick returns the *)
(* same value.  Option<T> is modelled as a sequence: <<>> is None and     *)
(* <<x>> is Some(x).                                                       *)
(***************************************************************************)
EXTENDS Integers, Sequences, FiniteSets, TLC

VARIABLES
    state,          \* App.state : AppState
    now,            \* seconds elapsed since App::new (monotonic clock)
    alive,          \* FALSE once a panic has terminated the process
    address,        \* the NodeAddress of this node (env override or dip switch)
    tick,           \* what the last App::update read and wrote
    held,           \* history: the activation time a GateReady state last held
    codec,          \* the last call of the wire codec and what it returned
    demo            \* the demo App: its state and the log of its last update

appvars == <<state, now, alive, address, tick, held>>
vars == <<state, now, alive, address, tick, held, codec, demo>>

\* ---------------------------------------------------------------- bounds
MaxTime == 13       \* the model stops the clock here
MaxStep == 1        \* longest sleep between two ticks
ClockRange == 11    \* last second LocalClock can represent

\* Sample values of the platform's answers.
CoordSkews == {-1, 0, 1}    \* observed coordinator time minus local time
StartActivations == {1}     \* activation times the start gate reported
FinishActivations == {4}    \* activation times the finish gate reported

\* ------------------------------------------------------------- constants
TIMEOUT == 10

\* ---------------------------------------------------------------- Option
None == <<>>
Some(x) == <<x>>
IsSome(o) == o # <<>>
Unwrap(o) == o[1]

\* ----------------------------------------------------------- NodeAddress
Addresses == {0, 1, 32, 2}

is_coordinator(a) == a = 0
is_start(a) == a = 1
is_finish(a) == a = 32
is_gate(a) == is_start(a) \/ is_finish(a)

\* ------------------------------------------------------------ Time model
LocalClock_now(t) == IF t <= ClockRange THEN Some(t) ELSE None

\* calculate_clock_offset: coordinator time minus local time; the case of a
\* coordinator behind the local clock is a crash-on-reach placeholder.
OffsetDefined(coord_time, local_time) == coord_time >= local_time
calculate_clock_offset(coord_time, local_time) == coord_time - local_time

\* CoordinatedClock::now(): local now + offset
CoordinatedClock_now(local_time, offset) == local_time + offset

\* ------------------------------------------------------------ Gates, Race
GateDefault == [active |-> FALSE, last_activation_time |-> None]
GatesDefault == [start_gate |-> GateDefault, finish_gate |-> GateDefault]
RaceDefault == [elapsed |-> None]

\* A gate's record in the aggregate: a GateBeacon that reports Active always
\* carries an activation time, so no record is active without one.
GateRecords(times) ==
    {GateDefault}
    \cup {[active |-> a, last_activation_time |-> Some(t)] :
            a \in BOOLEAN, t \in times}
AllGates ==
    [start_gate : GateRecords(StartActivations),
     finish_gate : GateRecords(FinishActivations)]

Race_set_gates(race, gates) ==
    IF IsSome(gates.start_gate.last_activation_time)
       /\ IsSome(gates.finish_gate.last_activation_time)
    THEN [elapsed |-> Some(Unwrap(gates.finish_gate.last_activation_time)
                           - Unwrap(gates.start_gate.last_activation_time))]
    ELSE [elapsed |-> None]

SystemStateDefault == [time |-> 0, gates |-> GatesDefault, race |-> RaceDefault]

\* -------------------------------------------------------------- AppState
InitStateDefault ==
    [tag |-> "Init", gate_state |-> "Inactive", button_state |-> "NotPressed",
     time |-> 0]

\* Mutant: the start timestamp is the boot instant, not the instant of entry.
GateStartupStateDefault_Boot(instant_now) ==
    [tag |-> "GateStartup", time_started |-> 0]

GateStartupStateDefault(instant_now) ==
    [tag |-> "GateStartup", time_started |-> instant_now]

AppStateDefault == InitStateDefault

\* ------------------------------------------------------- handler results
\* What a handler did: it panicked, or it returned `state` after publishing
\* `pubs`, recording `rec` through set_coordinator_time and writing `dash`
\* through set_system_state.
Panicked(self) ==
    [panic |-> TRUE, state |-> self, pubs |-> <<>>, rec |-> None, dash |-> None,
     errlog |-> <<>>]
Returned(new_state, pubs, rec, dash) ==
    [panic |-> FALSE, state |-> new_state, pubs |-> pubs, rec |-> rec, dash |-> dash,
     errlog |-> <<>>]

\* Mutant: the result of publish is unwrapped.
publish_logged_Unwrap(r, in) ==
    IF r.pubs # <<>> /\ ~in.pub_ok THEN [r EXCEPT !.panic = TRUE] ELSE r

\* `if let Err(e) = ...publish(beacon.into()) { log::error!("{e}") }`: what
\* a handler does with the result of its publish call.
publish_logged(r, in) ==
    IF r.pubs # <<>> /\ ~in.pub_ok THEN [r EXCEPT !.errlog = <<"publish">>] ELSE r

CoordinatorBeacon(time) == [kind |-> "CoordinatorBeacon", time |-> time]
GateBeacon(addr, gate_state, last_activation_time) ==
    [kind |-> "GateBeacon", addr |-> addr, state |-> gate_state,
     last_activation_time |-> last_activation_time]

\* make_coordinated_clock: None, a clock (its offset), or a panic inside
\* calculate_clock_offset.
make_coordinated_clock(in) ==
    IF ~IsSome(in.clock) THEN [panic |-> FALSE, clock |-> None]
    ELSE IF ~IsSome(in.coord) THEN [panic |-> FALSE, clock |-> None]
    ELSE IF ~OffsetDefined(Unwrap(in.coord), Unwrap(in.clock))
         THEN [panic |-> TRUE, clock |-> None]
    ELSE [panic |-> FALSE,
          clock |-> Some([local |-> Unwrap(in.clock),
                          offset |-> calculate_clock_offset(Unwrap(in.coord),
                                                            Unwrap(in.clock))])]

\* Mutant: a gate starts up without looking at the button.
InitState_update_NoButtonGuard(self, in) ==
    IF ~IsSome(in.clock) THEN Panicked(self)
    ELSE
    LET local_time == Unwrap(in.clock)
        startup_as_gate == is_gate(in.addr) /\ in.gate # "Active"
        startup_as_coordinator ==
            is_coordinator(in.addr) /\ in.button # "Pressed" /\ in.gate # "Active"
    IN  IF startup_as_gate
        THEN Returned(GateStartupStateDefault(in.instant), <<>>, None, None)
        ELSE IF startup_as_coordinator
        THEN Returned([tag |-> "CoordinatorReady", time |-> local_time,
                       system_state |-> SystemStateDefault,
                       any_gate_active |-> FALSE], <<>>, None, None)
        ELSE Returned(self, <<>>, None, None)

InitState_update(self, in) ==
    IF ~IsSome(in.clock) THEN Panicked(self)
    ELSE
    LET local_time == Unwrap(in.clock)
        startup_as_gate ==
            is_gate(in.addr) /\ in.button # "Pressed" /\ in.gate # "Active"
        startup_as_coordinator ==
            is_coordinator(in.addr) /\ in.button # "Pressed" /\ in.gate # "Active"
    IN  IF startup_as_gate
        THEN Returned(GateStartupStateDefault(in.instant), <<>>, None, None)
        ELSE IF startup_as_coordinator
        THEN Returned([tag |-> "CoordinatorReady", time |-> local_time,
                       system_state |-> SystemStateDefault,
                       any_gate_active |-> FALSE], <<>>, None, None)
        ELSE Returned(self, <<>>, None, None)

\* CoordinatorReadyState::update once the link is known to be up.
\* Mutant: the race of the previous snapshot is kept.
CoordinatorReady_run_StaleRace(self, in) ==
    IF ~IsSome(in.clock) THEN Panicked(self)
    ELSE
    LET time == Unwrap(in.clock)
        gates == in.gates
        race == self.system_state.race
        any_gate_active == gates.start_gate.active \/ gates.finish_gate.active
        system_state == [time |-> time, gates |-> gates, race |-> race]
    IN  publish_logged(
            Returned([tag |-> "CoordinatorReady", time |-> time,
                      system_state |-> system_state,
                      any_gate_active |-> any_gate_active],
                     <<CoordinatorBeacon(time)>>, Some(time),
                     Some(self.system_state)), in)

CoordinatorReady_run(self, in) ==
    IF ~IsSome(in.clock) THEN Panicked(self)
    ELSE
    LET time == Unwrap(in.clock)
        gates == in.gates
        race == Race_set_gates(self.system_state.race, gates)
        any_gate_active == gates.start_gate.active \/ gates.finish_gate.active
        system_state == [time |-> time, gates |-> gates, race |-> race]
    IN  publish_logged(
            Returned([tag |-> "CoordinatorReady", time |-> time,
                      system_state |-> system_state,
                      any_gate_active |-> any_gate_active],
                     <<CoordinatorBeacon(time)>>, Some(time),
                     Some(self.system_state)), in)

\* Mutant: the link is tested after the tick's work instead of before it.
CoordinatorReadyState_update_LateLinkCheck(self, in) ==
    LET r == CoordinatorReady_run(self, in)
    IN  IF ~in.wifi /\ ~r.panic THEN [r EXCEPT !.state = InitStateDefault] ELSE r

CoordinatorReadyState_update(self, in) ==
    IF ~in.wifi THEN Returned(InitStateDefault, <<>>, None, None)
    ELSE CoordinatorReady_run(self, in)

\* The timeout test of GateStartupState::update (checked_duration_since is
\* None when time_started is later than now).
GateStartup_timed_out(self, in) ==
    in.instant >= self.time_started /\ in.instant - self.time_started > TIMEOUT

GateStartupState_update(self, in) ==
    IF GateStartup_timed_out(self, in) THEN Panicked(self)
    ELSE
    LET cc == make_coordinated_clock(in)
    IN  IF cc.panic THEN Panicked(self)
        ELSE IF IsSome(cc.clock)
        THEN Returned([tag |-> "GateReady", is_wifi_connected |-> in.wifi,
                       gate_state |-> in.gate,
                       clock_offset |-> Unwrap(cc.clock).offset,
                       last_activation_time |-> None], <<>>, None, None)
        ELSE Returned(self, <<>>, None, None)

\* Mutant: losing the clock resets the gate as losing the link resets the
\* coordinator.
GateReady_demoted_ToInit(in) == InitStateDefault

\* The state GateReadyState::update returns when no coordinated clock can be
\* built.
GateReady_demoted(in) == GateStartupStateDefault(in.instant)

\* Mutant: the latch follows the gate and is dropped on deactivation.
GateReady_latch_Cleared(self, in, coordinated_time) ==
    IF in.gate = "Active" THEN Some(coordinated_time) ELSE None

\* Mutant: the latch takes the local time, without the offset.
GateReady_latch_LocalTime(self, in, coordinated_time) ==
    IF in.gate = "Active" THEN in.clock ELSE self.last_activation_time

\* The latch step of GateReadyState::update.
GateReady_latch(self, in, coordinated_time) ==
    IF in.gate = "Active" THEN Some(coordinated_time)
    ELSE self.last_activation_time

\* Mutant: the beacon is published only when the state changed.
GateReady_publish_OnChange(self, new_state, beacon) ==
    IF new_state = self THEN <<>> ELSE <<beacon>>

\* The publish step of GateReadyState::update: the publish calls it makes.
GateReady_publish(self, new_state, beacon) == <<beacon>>

\* Mutant: the offset computed at startup is kept instead of being
\* recomputed from the tick's coordinator time.
GateReadyState_update_KeptOffset(self, in) ==
    LET cc == make_coordinated_clock(in)
    IN  IF cc.panic THEN Panicked(self)
        ELSE IF ~IsSome(cc.clock)
        THEN Returned(GateReady_demoted(in), <<>>, None, None)
        ELSE
        LET coordinated_time ==
                CoordinatedClock_now(Unwrap(cc.clock).local, self.clock_offset)
            clock_offset == self.clock_offset
            last_activation_time == GateReady_latch(self, in, coordinated_time)
            beacon == GateBeacon(in.addr, in.gate, last_activation_time)
            new_state ==
                [tag |-> "GateReady", is_wifi_connected |-> in.wifi,
                 gate_state |-> in.gate, clock_offset |-> clock_offset,
                 last_activation_time |-> last_activation_time]
        IN  publish_logged(
                Returned(new_state, GateReady_publish(self, new_state, beacon),
                         None, None), in)

GateReadyState_update(self, in) ==
    LET cc == make_coordinated_clock(in)
    IN  IF cc.panic THEN Panicked(self)
        ELSE IF ~IsSome(cc.clock)
        THEN Returned(GateReady_demoted(in), <<>>, None, None)
        ELSE
        LET coordinated_time ==
                CoordinatedClock_now(Unwrap(cc.clock).local, Unwrap(cc.clock).offset)
            clock_offset == Unwrap(cc.clock).offset
            last_activation_time == GateReady_latch(self, in, coordinated_time)
            beacon == GateBeacon(in.addr, in.gate, last_activation_time)
            new_state ==
                [tag |-> "GateReady", is_wifi_connected |-> in.wifi,
                 gate_state |-> in.gate, clock_offset |-> clock_offset,
                 last_activation_time |-> last_activation_time]
        IN  publish_logged(
                Returned(new_state, GateReady_publish(self, new_state, beacon),
                         None, None), in)

LedController_update(app_state) ==
    CASE app_state.tag = "Init" -> 16711680
      [] app_state.tag = "CoordinatorReady" ->
            IF app_state.any_gate_active THEN 65535 ELSE 16777215
      [] app_state.tag = "GateStartup" -> 16776960
      [] app_state.tag = "GateReady" ->
            IF app_state.gate_state = "Active" THEN 32896
            ELSE IF app_state.is_wifi_connected THEN 32768
            ELSE 8388608

\* ------------------------------------------------------------ the inputs
\* Values the platform can return to the reads of one tick.  A read the
\* handler of the current variant does not make is pinned to a default.
NoInput(t) ==
    [wifi |-> FALSE, gate |-> "Inactive", button |-> "NotPressed", addr |-> 0,
     clock |-> LocalClock_now(t), instant |-> t, coord |-> None,
     gates |-> GatesDefault, pub_ok |-> TRUE]

GateStates == {"Active", "Inactive"}
ButtonStates == {"Pressed", "NotPressed"}
CoordTimes(t) ==
    {None} \cup {Some(t + k) : k \in {x \in CoordSkews : t + x >= 0}}

\* The reads each handler makes (all other fields keep their default).
InitInput(t, w, g, b) ==
    [NoInput(t) EXCEPT !.wifi = w, !.gate = g, !.button = b, !.addr = address]
CoordinatorReadyInput(t, w, gs, p) ==
    [NoInput(t) EXCEPT !.wifi = w, !.gates = gs, !.pub_ok = p]
GateStartupInput(t, w, g, c) ==
    [NoInput(t) EXCEPT !.wifi = w, !.gate = g, !.coord = c]
GateReadyInput(t, w, g, c, p) ==
    [NoInput(t) EXCEPT !.wifi = w, !.gate = g, !.coord = c, !.addr = address,
                       !.pub_ok = p]

\* ------------------------------------------------------------ wire codec
\* src/racegate/src/svc/race_node.rs.  A frame is a sequence of FRAME_SIZE
\* bytes; data.0[i] of the source is frame[i + 1] here.  A message is
\* RaceNodeMessage::SystemState(AddressedSystemState {addr, state}), with
\* state = SystemState {gate_state, time} and time a u32 of milliseconds.
\* TLC's integers end at 2^31 - 1, so the sample times and frames keep the
\* top bit of the timestamp clear.
FRAME_SIZE == 16

Err(e) == [ok |-> FALSE, err |-> e]
Ok(v) == [ok |-> TRUE, value |-> v]

\* svc::clock::Instant, a count of milliseconds
Instant_from_millis(ms) == [millis |-> ms]
Instant_to_millis(t) == t.millis

\* `gate_state as u8`
GateState_as_u8(g) == IF g = "Active" THEN 1 ELSE 0

\* ((x >> shift) & 0xFF) as u8
ByteAt(x, shift) == (x \div (2 ^ shift)) % 256

\* slice::get / slice::first
Get(data, i) == IF i < Len(data) THEN Some(data[i + 1]) ELSE None

Message(addr, gate_state, time) ==
    [kind |-> "SystemState", addr |-> addr,
     state |-> [gate_state |-> gate_state, time |-> time]]

\* Mutant: the timestamp is written low byte first.
serialize_system_state_LittleEndian(x, data) ==
    [data EXCEPT ![2] = x.addr,
                 ![3] = GateState_as_u8(x.state.gate_state),
                 ![4] = ByteAt(Instant_to_millis(x.state.time), 0),
                 ![5] = ByteAt(Instant_to_millis(x.state.time), 8),
                 ![6] = ByteAt(Instant_to_millis(x.state.time), 16),
                 ![7] = ByteAt(Instant_to_millis(x.state.time), 24)]

serialize_system_state(x, data) ==
    [data EXCEPT ![2] = x.addr,
                 ![3] = GateState_as_u8(x.state.gate_state),
                 ![4] = ByteAt(Instant_to_millis(x.state.time), 24),
                 ![5] = ByteAt(Instant_to_millis(x.state.time), 16),
                 ![6] = ByteAt(Instant_to_millis(x.state.time), 8),
                 ![7] = ByteAt(Instant_to_millis(x.state.time), 0)]

\* From<&RaceNodeMessage> for FrameData
FrameData_from(msg) ==
    LET msg_id == 1
        data == [i \in 1..FRAME_SIZE |-> IF i = 1 THEN msg_id ELSE 0]
    IN  serialize_system_state(msg, data)

\* Mutant: the two middle bytes of the timestamp are read in the wrong order.
AddressedSystemState_try_from_SwappedBytes(data) ==
    IF ~IsSome(Get(data, 1)) THEN Err("Unknown")
    ELSE
    LET addr == Unwrap(Get(data, 1))
        gate_state ==
            IF Get(data, 2) = Some(1) THEN "Active" ELSE "Inactive"
    IN  IF \E i \in 3..6 : ~IsSome(Get(data, i)) THEN Err("Unknown")
        ELSE
        LET d0 == Unwrap(Get(data, 3))
            d1 == Unwrap(Get(data, 4))
            d2 == Unwrap(Get(data, 5))
            d3 == Unwrap(Get(data, 6))
            time_ms == d0 * (2 ^ 24) + d2 * (2 ^ 16) + d1 * (2 ^ 8) + d3
        IN  Ok(Message(addr, gate_state, Instant_from_millis(time_ms)))

\* Mutant: a gate-state byte that is neither 0 nor 1 is a decode error.
AddressedSystemState_try_from_Strict(data) ==
    IF ~IsSome(Get(data, 1)) THEN Err("Unknown")
    ELSE IF Get(data, 2) \notin {Some(0), Some(1)} THEN Err("Unknown")
    ELSE
    LET addr == Unwrap(Get(data, 1))
        gate_state ==
            IF Get(data, 2) = Some(1) THEN "Active" ELSE "Inactive"
    IN  IF \E i \in 3..6 : ~IsSome(Get(data, i)) THEN Err("Unknown")
        ELSE
        LET d0 == Unwrap(Get(data, 3))
            d1 == Unwrap(Get(data, 4))
            d2 == Unwrap(Get(data, 5))
            d3 == Unwrap(Get(data, 6))
            time_ms == d0 * (2 ^ 24) + d1 * (2 ^ 16) + d2 * (2 ^ 8) + d3
        IN  Ok(Message(addr, gate_state, Instant_from_millis(time_ms)))

\* TryFrom<FrameData> for AddressedSystemState (the shifts and ors of bytes
\* into a u32 are the sum of the shifted bytes)
AddressedSystemState_try_from(data) ==
    IF ~IsSome(Get(data, 1)) THEN Err("Unknown")
    ELSE
    LET addr == Unwrap(Get(data, 1))
        gate_state ==
            IF Get(data, 2) = Some(0) THEN "Inactive"
            ELSE IF Get(data, 2) = Some(1) THEN "Active"
            ELSE "Inactive"
    IN  IF \E i \in 3..6 : ~IsSome(Get(data, i)) THEN Err("Unknown")
        ELSE
        LET d0 == Unwrap(Get(data, 3))
            d1 == Unwrap(Get(data, 4))
            d2 == Unwrap(Get(data, 5))
            d3 == Unwrap(Get(data, 6))
            time_ms == d0 * (2 ^ 24) + d1 * (2 ^ 16) + d2 * (2 ^ 8) + d3
        IN  Ok(Message(addr, gate_state, Instant_from_millis(time_ms)))

\* TryFrom<FrameData> for RaceNodeMessage
RaceNodeMessage_try_from(data) ==
    IF ~IsSome(Get(data, 0)) THEN Err("Unknown")
    ELSE IF Unwrap(Get(data, 0)) = 1 THEN AddressedSystemState_try_from(data)
    ELSE Err("Unknown")

\* Sample messages and frames.
SampleAddrs == {0, 1, 32, 255}
SampleTimes ==
    {0, 1, 255, 256, 12345, 65535, 65536, 16777216, 16909060, 2147483647}
SampleTags == {0, 1, 2, 255}
SampleGateBytes == {0, 1, 2, 255}
SampleTimeBytes == {0, 1, 255}
SampleTopBytes == {0, 1, 127}
SampleTailBytes == {0, 7}

Frame(tag, addr, gate, d0, d1, d2, d3, tail) ==
    [i \in 1..FRAME_SIZE |->
        CASE i = 1 -> tag  [] i = 2 -> addr [] i = 3 -> gate
          [] i = 4 -> d0   [] i = 5 -> d1   [] i = 6 -> d2
          [] i = 7 -> d3   [] i = FRAME_SIZE -> tail
          [] OTHER -> 0]

CodecIdle ==
    [op |-> "idle", msg |-> None, frame |-> <<>>, result |-> Err("None"),
     reframe |-> None]

\* A call about to be made: encode with a sample message, or decode with a
\* sample frame.
CodecCall(op, msg, frame) ==
    [op |-> op, msg |-> msg, frame |-> frame, result |-> Err("None"),
     reframe |-> None]

SampleMessages ==
    {Message(a, g, Instant_from_millis(t)) :
        a \in SampleAddrs, g \in GateStates, t \in SampleTimes}

SampleFrames ==
    {Frame(tag, a, g, d0, d1, d2, d3, tail) :
        tag \in SampleTags, a \in SampleAddrs, g \in SampleGateBytes,
        d0 \in SampleTopBytes, d1 \in SampleTimeBytes,
        d2 \in SampleTimeBytes, d3 \in SampleTimeBytes,
        tail \in SampleTailBytes}

CodecCalls ==
    {CodecCall("call_encode", Some(m), <<>>) : m \in SampleMessages}
    \cup {CodecCall("call_decode", None, f) : f \in SampleFrames}

\* msg.data(), then the frame decoded again
EncodeMessage ==
    /\ codec.op = "call_encode"
    /\ \E f \in {FrameData_from(Unwrap(codec.msg))} :
          codec' = [op |-> "encode", msg |-> codec.msg,
                    frame |-> f, result |-> RaceNodeMessage_try_from(f),
                    reframe |-> None]
    /\ UNCHANGED <<appvars, demo>>

\* RaceNodeMessage::try_from(frame), then the message encoded again
DecodeFrame ==
    /\ codec.op = "call_decode"
    /\ \E r \in {RaceNodeMessage_try_from(codec.frame)} :
          codec' = [op |-> "decode", msg |-> None, frame |-> codec.frame,
                    result |-> r,
                    reframe |-> IF r.ok THEN Some(FrameData_from(r.value))
                                ELSE None]
    /\ UNCHANGED <<appvars, demo>>

\* --------------------------------------------------------------- demo App
\* src/demo/src/app/mod.rs.  A u32 is held as <<high half, low half>> in base
\* U16 (TLC's integers end below 2^32); a count that is not a u32 uses the
\* same pair with an unbounded high half.
MaxDemoTicks == 6
U16 == 65536

U32_zero == <<0, 0>>
U32_MAX == <<U16 - 1, U16 - 1>>
Count_add1(c) == IF c[2] < U16 - 1 THEN <<c[1], c[2] + 1>> ELSE <<c[1] + 1, 0>>

\* `counter += 1` on a u32: a panic with overflow checks (debug profile),
\* wrapping without them (release profile).
U32_add1(c, overflow_checks) ==
    IF c # U32_MAX THEN [panic |-> FALSE, value |-> Count_add1(c)]
    ELSE IF overflow_checks THEN [panic |-> TRUE, value |-> c]
    ELSE [panic |-> FALSE, value |-> U32_zero]

Vec3Default == [x |-> 0, y |-> 0, z |-> 0]
Demo_SystemState(counter) == [counter |-> counter, acc |-> Vec3Default]
Demo_SystemStateDefault == Demo_SystemState(U32_zero)
Demo_InitStateDefault == [tag |-> "Init", button_state |-> "NotPressed"]
Demo_OperationalState(system_state) ==
    [tag |-> "Operational", system_state |-> system_state]
Demo_AppStateDefault == Demo_InitStateDefault

\* color_from_app_state: RED for Init, GREEN for Operational
Demo_color_from_app_state(app_state) ==
    IF app_state.tag = "Init" THEN 16711680 ELSE 65280

\* InitState::update
Demo_InitState_update(self, pressed) ==
    IF pressed THEN [panic |-> FALSE, state |-> self, http |-> None]
    ELSE [panic |-> FALSE,
          state |-> Demo_OperationalState(Demo_SystemStateDefault),
          http |-> None]

\* OperationalState::update: the counter is changed in place, then written
\* to the HTTP server.
Demo_OperationalState_update(self, pressed, overflow_checks) ==
    LET sum == IF pressed THEN [panic |-> FALSE, value |-> U32_zero]
               ELSE U32_add1(self.system_state.counter, overflow_checks)
        system_state == [self.system_state EXCEPT !.counter = sum.value]
    IN  IF sum.panic THEN [panic |-> TRUE, state |-> self, http |-> None]
        ELSE [panic |-> FALSE, state |-> Demo_OperationalState(system_state),
              http |-> Some(system_state)]

Demo_Dispatch(st, pressed, overflow_checks) ==
    IF st.tag = "Init" THEN Demo_InitState_update(st, pressed)
    ELSE Demo_OperationalState_update(st, pressed, overflow_checks)

\* The demo App after construction, built with or without overflow checks.
\* `run` counts the not-pressed Operational ticks since the last pressed one.
DemoBoot(overflow_checks) ==
    [state |-> Demo_AppStateDefault, alive |-> TRUE,
     overflow_checks |-> overflow_checks, n |-> 0, pre |-> "Boot",
     pressed |-> FALSE, panic |-> FALSE, http |-> None, led |-> None,
     run |-> U32_zero]

\* The demo App after c Operational ticks in a row without a press, c >= 1.
DemoAfterRun(c, overflow_checks) ==
    [state |-> Demo_OperationalState(Demo_SystemState(c)), alive |-> TRUE,
     overflow_checks |-> overflow_checks, n |-> 0, pre |-> "Operational",
     pressed |-> FALSE, panic |-> FALSE, http |-> Some(Demo_SystemState(c)),
     led |-> Some(65280), run |-> c]

SampleRuns ==
    {<<0, 1>>, <<0, U16 - 1>>, <<1, 0>>, <<U16 - 1, U16 - 3>>, U32_MAX}

\* App::update of the demo: the handler, the commit, the indicator.
Demo_App_update(pressed) ==
    \E r \in {Demo_Dispatch(demo.state, pressed, demo.overflow_checks)} :
        demo' = [demo EXCEPT
                    !.state = IF r.panic THEN @ ELSE r.state,
                    !.alive = ~r.panic,
                    !.n = @ + 1,
                    !.pre = demo.state.tag,
                    !.pressed = pressed,
                    !.panic = r.panic,
                    !.http = r.http,
                    !.led = IF r.panic THEN None
                            ELSE Some(Demo_color_from_app_state(r.state)),
                    !.run = IF demo.state.tag = "Init" \/ pressed THEN U32_zero
                            ELSE Count_add1(@)]

DemoTickInit ==
    /\ demo.alive /\ demo.n < MaxDemoTicks
    /\ demo.state.tag = "Init"
    /\ \E pressed \in BOOLEAN : Demo_App_update(pressed)
    /\ UNCHANGED <<appvars, codec>>

DemoTickOperational ==
    /\ demo.alive /\ demo.n < MaxDemoTicks
    /\ demo.state.tag = "Operational"
    /\ \E pressed \in BOOLEAN : Demo_App_update(pressed)
    /\ UNCHANGED <<appvars, codec>>

\* ------------------------------------------------------------ App::update
NoTick ==
    [pre |-> "Boot", in |-> NoInput(0), panic |-> FALSE, commit |-> FALSE,
     pubs |-> <<>>, rec |-> None, dash |-> None, errlog |-> <<>>,
     led |-> None]

Dispatch(st, in) ==
    CASE st.tag = "Init" -> InitState_update(st, in)
      [] st.tag = "CoordinatorReady" -> CoordinatorReadyState_update(st, in)
      [] st.tag = "GateStartup" -> GateStartupState_update(st, in)
      [] st.tag = "GateReady" -> GateReadyState_update(st, in)

\* App::update: dispatch on the variant, commit the new state when it differs,
\* refresh the indicator.  A panic unwinds out of update: nothing is committed
\* and the process is gone.  (r is bound by \E so that it is evaluated once.)
\* Mutant: the indicator is refreshed from the state the tick started in.
App_update_StaleLed(in) ==
    \E r \in {Dispatch(state, in)} :
        /\ alive' = ~r.panic
        /\ state' = IF ~r.panic /\ r.state # state THEN r.state ELSE state
        /\ tick' = [pre |-> state.tag, in |-> in, panic |-> r.panic,
                    commit |-> (~r.panic /\ r.state # state),
                    pubs |-> r.pubs, rec |-> r.rec, dash |-> r.dash,
                    errlog |-> r.errlog,
                    led |-> IF r.panic THEN None
                            ELSE Some(LedController_update(state))]
        /\ UNCHANGED <<address, codec, demo>>
        /\ held' = IF state'.tag = "GateReady"
                      /\ IsSome(state'.last_activation_time)
                   THEN state'.last_activation_time
                   ELSE held

App_update(in) ==
    \E r \in {Dispatch(state, in)} :
        /\ alive' = ~r.panic
        /\ state' = IF ~r.panic /\ r.state # state THEN r.state ELSE state
        /\ tick' = [pre |-> state.tag, in |-> in, panic |-> r.panic,
                    commit |-> (~r.panic /\ r.state # state),
                    pubs |-> r.pubs, rec |-> r.rec, dash |-> r.dash,
                    errlog |-> r.errlog,
                    led |-> IF r.panic THEN None
                            ELSE Some(LedController_update(state'))]
        /\ UNCHANGED <<address, codec, demo>>
        /\ held' = IF state'.tag = "GateReady"
                      /\ IsSome(state'.last_activation_time)
                   THEN state'.last_activation_time
                   ELSE held

Sleep(dt) ==
    /\ alive
    /\ now + dt <= MaxTime
    /\ now' = now + dt

TickInit ==
    /\ state.tag = "Init"
    /\ \E dt \in 0..MaxStep :
          /\ Sleep(dt)
          /\ \E w \in BOOLEAN, g \in GateStates, b \in ButtonStates :
                App_update(InitInput(now + dt, w, g, b))

TickCoordinatorReady ==
    /\ state.tag = "CoordinatorReady"
    /\ \E dt \in 0..MaxStep :
          /\ Sleep(dt)
          /\ \E w \in BOOLEAN, gs \in AllGates, p \in BOOLEAN :
                App_update(CoordinatorReadyInput(now + dt, w, gs, p))

TickGateStartup ==
    /\ state.tag = "GateStartup"
    /\ \E dt \in 0..MaxStep :
          /\ Sleep(dt)
          /\ \E w \in BOOLEAN, g \in GateStates, c \in CoordTimes(now + dt) :
                App_update(GateStartupInput(now + dt, w, g, c))

TickGateReady ==
    /\ state.tag = "GateReady"
    /\ \E dt \in 0..MaxStep :
          /\ Sleep(dt)
          /\ \E w \in BOOLEAN, g \in GateStates, c \in CoordTimes(now + dt),
                p \in BOOLEAN :
                App_update(GateReadyInput(now + dt, w, g, c, p))

Init ==
    /\ state = AppStateDefault
    /\ now = 0
    /\ alive = TRUE
    /\ address \in Addresses
    /\ tick = NoTick
    /\ held = None
    /\ codec = CodecIdle
    /\ demo = DemoBoot(TRUE)

Next == TickInit \/ TickCoordinatorReady \/ TickGateStartup \/ TickGateReady

Spec == Init /\ [][Next]_vars

\* The codec on its own: calls of encode and decode on sample inputs.
InitCodec ==
    /\ state = AppStateDefault
    /\ now = 0
    /\ alive = TRUE
    /\ address = 0
    /\ tick = NoTick
    /\ held = None
    /\ codec \in CodecCalls
    /\ demo = DemoBoot(TRUE)

NextCodec == EncodeMessage \/ DecodeFrame

SpecCodec == InitCodec /\ [][NextCodec]_vars

\* The demo App on its own, from boot or from a long run without a press.
InitDemo ==
    /\ state = AppStateDefault
    /\ now = 0
    /\ alive = TRUE
    /\ address = 0
    /\ tick = NoTick
    /\ held = None
    /\ codec = CodecIdle
    /\ demo \in {DemoBoot(oc) : oc \in BOOLEAN}
               \cup {DemoAfterRun(c, oc) : c \in SampleRuns, oc \in BOOLEAN}

NextDemo == DemoTickInit \/ DemoTickOperational

SpecDemo == InitDemo /\ [][NextDemo]_vars


\* ================================================================ claims
\* What the last tick was, read from its log.
GateBeaconOf(addr, gate_state, last_activation_time) ==
    [kind |-> "GateBeacon", addr |-> addr, state |-> gate_state,
     last_activation_time |-> last_activation_time]
ClockBuilt(in) ==
    IsSome(in.clock) /\ IsSome(in.coord) /\ Unwrap(in.coord) >= Unwrap(in.clock)

\* The moves between AppState variants.
AllowedMoves ==
    {<<"Init", "GateStartup">>, <<"Init", "CoordinatorReady">>,
     <<"GateStartup", "GateReady">>, <<"GateReady", "GateStartup">>,
     <<"CoordinatorReady", "Init">>}

\* C1: every tick that changes the AppState variant makes one of the moves
\* Init->GateStartup, Init->CoordinatorReady, GateStartup->GateReady,
\* GateReady->GateStartup, CoordinatorReady->Init; so a gate never returns to
\* Init or becomes a coordinator, and a coordinator becomes a gate only
\* through Init.
C1_RoleMoves ==
    [][state'.tag # state.tag => <<state.tag, state'.tag>> \in AllowedMoves]_vars
\* a gate that lost its clock has just been demoted
C1_Witness == tick.pre = "GateReady" /\ state.tag = "GateStartup" /\ tick.commit

\* C2: a tick that starts in Init while the link is down leaves the node in
\* Init, whatever the address, the button and the gate read.
C2_InitLinkDownStays ==
    (tick.pre = "Init" /\ ~tick.in.wifi) => state.tag = "Init"

\* C3 (as stated): once a gate node has latched an activation time, the time
\* it holds changes only on a tick that reads the gate Active and is never
\* cleared, also across a demotion and the re-sync that follows it.
C3_StickyAcrossResync ==
    [][(IsSome(held) /\ state'.tag = "GateReady")
        => /\ IsSome(state'.last_activation_time)
           /\ (state'.last_activation_time # held => tick'.in.gate = "Active")]_vars
\* C3 (amended): over consecutive GateReady ticks the last-activation time held
\* and published changes only on a tick that reads the gate Active and is
\* never cleared; the re-sync GateStartup->GateReady starts with none.
C3_StickyWhileReady ==
    [][/\ (state.tag = "GateReady" /\ state'.tag = "GateReady")
          => /\ (state'.last_activation_time # state.last_activation_time
                    => tick'.in.gate = "Active")
             /\ (IsSome(state.last_activation_time)
                    => IsSome(state'.last_activation_time))
             /\ \A i \in 1..Len(tick'.pubs) :
                    tick'.pubs[i].last_activation_time = state'.last_activation_time
       /\ (state.tag = "GateStartup" /\ state'.tag = "GateReady")
          => state'.last_activation_time = None]_vars
\* a latched time survived a tick that read the gate Inactive
C3_Witness ==
    /\ tick.pre = "GateReady" /\ state.tag = "GateReady"
    /\ tick.in.gate = "Inactive" /\ IsSome(state.last_activation_time)
    /\ Len(tick.pubs) = 1

\* C4: on a CoordinatorReady tick with the link up, the snapshot handed to
\* set_system_state is the one built in that tick: the time stamped, the
\* Gates pulled and the Race recomputed from them.
C4_DashboardGetsThisTick ==
    (tick.pre = "CoordinatorReady" /\ tick.in.wifi /\ ~tick.panic)
    => tick.dash = Some([time |-> Unwrap(tick.in.clock),
                         gates |-> tick.in.gates,
                         race |-> Race_set_gates(RaceDefault, tick.in.gates)])

\* C5: a GateStartup tick terminates the process exactly when more than 10
\* seconds have passed since the node entered GateStartup, and after that no
\* tick runs.
C5_StartupTimeout ==
    [][/\ (alive /\ state.tag = "GateStartup")
          => (alive' <=> now' - state.time_started <= TIMEOUT)
       /\ ~alive => UNCHANGED vars]_vars

\* C6: a tick on which the local clock is unreliable never terminates the
\* process, in any AppState (a GateStartup tick past its timeout aside).
C6_UnreliableClockTolerated ==
    (/\ tick.pre # "Boot"
     /\ ~IsSome(tick.in.clock)
     /\ ~(tick.pre = "GateStartup"
          /\ tick.in.instant - state.time_started > TIMEOUT))
    => ~tick.panic

\* C7: a CoordinatorReady tick with the link down ends in a fresh Init state
\* and publishes nothing, records no coordinator time and writes no snapshot;
\* no CoordinatorBeacon is ever published on a tick where the link is down.
C7_LinkDownResets ==
    /\ (tick.pre = "CoordinatorReady" /\ ~tick.in.wifi)
       => /\ state = [tag |-> "Init", gate_state |-> "Inactive",
                      button_state |-> "NotPressed", time |-> 0]
          /\ alive
          /\ tick.pubs = <<>> /\ tick.rec = None /\ tick.dash = None
    /\ \A i \in 1..Len(tick.pubs) :
          tick.pubs[i].kind = "CoordinatorBeacon" => tick.in.wifi
\* a coordinator that had published lost the link and is back in Init
C7_Witness ==
    tick.pre = "CoordinatorReady" /\ ~tick.in.wifi /\ state.tag = "Init" /\ now > 0

\* C8: a GateReady tick on which no coordinated clock can be built (no
\* coordinator time, or an unreliable local clock) demotes the node to
\* GateStartup with a fresh start timestamp, does not terminate the process
\* and publishes no GateBeacon.
C8_ClockLossDemotes ==
    (tick.pre = "GateReady" /\ (~IsSome(tick.in.clock) \/ ~IsSome(tick.in.coord)))
    => /\ state = [tag |-> "GateStartup", time_started |-> tick.in.instant]
       /\ alive /\ ~tick.panic
       /\ tick.pubs = <<>>
\* a gate was demoted because its local clock became unreliable
C8_Witness ==
    /\ tick.pre = "GateReady" /\ ~IsSome(tick.in.clock) /\ IsSome(tick.in.coord)
    /\ state.tag = "GateStartup" /\ state.time_started > 0

\* C9: on a tick that starts and ends in GateReady the last-activation time
\* becomes the coordinated time of the tick if the gate reads Active, and is
\* the value held before the tick if it reads Inactive.
C9_LatchStep ==
    [][(state.tag = "GateReady" /\ state'.tag = "GateReady" /\ tick' # tick
        /\ ~tick'.panic)
        => IF tick'.in.gate = "Active"
           THEN state'.last_activation_time
                    = Some(Unwrap(tick'.in.clock) + state'.clock_offset)
           ELSE state'.last_activation_time = state.last_activation_time]_vars
\* the gate went from Active to Inactive and the latch kept a time that is
\* not the local time
C9_Witness ==
    /\ tick.pre = "GateReady" /\ state.tag = "GateReady"
    /\ tick.in.gate = "Inactive" /\ IsSome(state.last_activation_time)
    /\ state.last_activation_time # tick.in.clock
    /\ state.clock_offset > 0

\* C10: every GateReady tick on which a coordinated clock is built makes
\* exactly one publish call, of the GateBeacon with the node's address, the
\* gate state read in the tick and the last-activation time after the latch
\* step, also when the new state equals the old one and nothing is committed.
C10_GateBeaconEveryTick ==
    (tick.pre = "GateReady" /\ ClockBuilt(tick.in))
    => /\ state.tag = "GateReady"
       /\ tick.pubs = <<GateBeaconOf(address, tick.in.gate,
                                     state.last_activation_time)>>
\* a GateReady tick that committed nothing still published its beacon
C10_Witness ==
    /\ tick.pre = "GateReady" /\ ClockBuilt(tick.in) /\ ~tick.commit
    /\ Len(tick.pubs) = 1

\* C11: every CoordinatorReady tick with the link up publishes exactly one
\* CoordinatorBeacon whose time is the local clock reading of the tick,
\* records the same time through set_coordinator_time and leaves the node in
\* CoordinatorReady.
C11_CoordinatorBeaconEveryTick ==
    (tick.pre = "CoordinatorReady" /\ tick.in.wifi)
    => /\ ~tick.panic
       /\ IsSome(tick.in.clock)
       /\ tick.pubs = <<[kind |-> "CoordinatorBeacon",
                         time |-> Unwrap(tick.in.clock)]>>
       /\ tick.rec = tick.in.clock
       /\ state.tag = "CoordinatorReady"
       /\ state.time = Unwrap(tick.in.clock)

\* C12: an Init tick with the link up, the button not pressed and the gate
\* inactive takes a gate address to GateStartup, the coordinator address to
\* CoordinatorReady (coordinated time = the local clock reading, default
\* snapshot, no gate active) and leaves any other address in Init.
C12_InitDeterminesRole ==
    (/\ tick.pre = "Init" /\ tick.in.wifi
     /\ tick.in.button = "NotPressed" /\ tick.in.gate = "Inactive")
    => /\ ~tick.panic
       /\ address \in {1, 32} => state.tag = "GateStartup"
       /\ address = 0
          => /\ IsSome(tick.in.clock)
             /\ state = [tag |-> "CoordinatorReady",
                         time |-> Unwrap(tick.in.clock),
                         system_state |->
                            [time |-> 0,
                             gates |-> [start_gate |->
                                           [active |-> FALSE,
                                            last_activation_time |-> <<>>],
                                        finish_gate |->
                                           [active |-> FALSE,
                                            last_activation_time |-> <<>>]],
                             race |-> [elapsed |-> <<>>]],
                         any_gate_active |-> FALSE]
       /\ address \notin {0, 1, 32} => state.tag = "Init"

\* C13: an Init tick that reads the button Pressed or the gate Active leaves
\* the node in Init with its fields as they were (nothing is committed),
\* whatever the address and the link state.
C13_NoRoleMidPress ==
    (tick.pre = "Init"
     /\ (tick.in.button = "Pressed" \/ tick.in.gate = "Active"))
    => /\ state.tag = "Init"
       /\ ~tick.commit
       /\ state = [tag |-> "Init", gate_state |-> "Inactive",
                   button_state |-> "NotPressed", time |-> 0]
\* a start gate with the link up stayed in Init because the button was held
C13_Witness ==
    /\ tick.pre = "Init" /\ tick.in.button = "Pressed" /\ tick.in.gate = "Inactive"
    /\ tick.in.wifi /\ address = 1 /\ ~tick.panic /\ state.tag = "Init"

\* The frames C15 calls valid: tag 1, gate-state byte 0 or 1, bytes 7..15 zero.
ValidFrame(f) ==
    /\ Len(f) = 16
    /\ f[1] = 1
    /\ f[3] \in {0, 1}
    /\ \A i \in 8..16 : f[i] = 0

\* C14: encoding a beacon message gives a frame of exactly 16 bytes with
\* byte 0 = 1, byte 1 = the address, byte 2 = 0 for Inactive and 1 for Active,
\* bytes 3..6 = the millisecond time in big-endian order, bytes 7..15 zero.
C14_EncodeLayout ==
    codec.op = "encode"
    => LET m == Unwrap(codec.msg)
           f == codec.frame
       IN  /\ Len(f) = 16
           /\ \A i \in 1..16 : f[i] \in 0..255
           /\ f[1] = 1
           /\ f[2] = m.addr
           /\ f[3] = (IF m.state.gate_state = "Active" THEN 1 ELSE 0)
           /\ f[4] * 16777216 + f[5] * 65536 + f[6] * 256 + f[7]
                 = m.state.time.millis
           /\ \A i \in 8..16 : f[i] = 0
\* the message of test_serialize_system_state: start gate, Active, 12345 ms
C14_Witness ==
    /\ codec.op = "encode"
    /\ codec.msg = Some([kind |-> "SystemState", addr |-> 1,
                         state |-> [gate_state |-> "Active",
                                    time |-> [millis |-> 12345]]])
    /\ codec.frame[6] = 48 /\ codec.frame[7] = 57

\* C15: decode(encode(m)) succeeds and equals m for every message m, and
\* encode(decode(f)) = f for every frame f that carries a valid payload.
C15_RoundTrip ==
    /\ codec.op = "encode"
       => codec.result = [ok |-> TRUE, value |-> Unwrap(codec.msg)]
    /\ (codec.op = "decode" /\ ValidFrame(codec.frame))
       => /\ codec.result.ok
          /\ codec.reframe = Some(codec.frame)
\* a valid frame whose four time bytes differ from one another came back
C15_Witness ==
    /\ codec.op = "decode" /\ ValidFrame(codec.frame)
    /\ codec.frame[3] = 1
    /\ codec.frame[4] = 0 /\ codec.frame[5] = 1 /\ codec.frame[6] = 255
    /\ codec.reframe = Some(codec.frame)

\* C16: decoding a 16-byte frame is an error exactly when byte 0 is not 1;
\* otherwise it gives a message, and a gate-state byte other than 0 and 1 is
\* no error and decodes as Inactive.
C16_DecodeTotal ==
    codec.op = "decode"
    => /\ codec.result.ok <=> codec.frame[1] = 1
       /\ codec.result.ok
          => /\ codec.result.value.addr = codec.frame[2]
             /\ codec.result.value.state.gate_state
                   = (IF codec.frame[3] = 1 THEN "Active" ELSE "Inactive")
\* a frame with tag 1 and gate-state byte 255 decoded as Inactive
C16_Witness ==
    /\ codec.op = "decode" /\ codec.frame[1] = 1 /\ codec.frame[3] = 255
    /\ codec.result.ok
    /\ codec.result.value.state.gate_state = "Inactive"

\* C17: on a coordinator tick that runs to its end with the link up, the
\* Race kept is derived from the Gates pulled in that very tick: elapsed =
\* finish activation - start activation when both gates have one, pending
\* when either has none.
C17_RaceFromLatestGates ==
    (tick.pre = "CoordinatorReady" /\ tick.in.wifi /\ ~tick.panic)
    => LET s == tick.in.gates.start_gate.last_activation_time
           f == tick.in.gates.finish_gate.last_activation_time
       IN  /\ state.tag = "CoordinatorReady"
           /\ state.system_state.gates = tick.in.gates
           /\ (s # <<>> /\ f # <<>>)
              => state.system_state.race.elapsed = <<f[1] - s[1]>>
           /\ (s = <<>> \/ f = <<>>)
              => state.system_state.race.elapsed = <<>>
\* both gates have fired (start at 1, finish at 4): the race lasted 3
C17_Witness ==
    /\ tick.pre = "CoordinatorReady" /\ tick.in.wifi /\ ~tick.panic
    /\ tick.in.gates.start_gate.last_activation_time = <<1>>
    /\ tick.in.gates.finish_gate.last_activation_time = <<4>>
    /\ state.system_state.race.elapsed = <<3>>

\* The tick was killed by the startup timeout (the state is as it was).
TickTimedOut ==
    /\ tick.pre = "GateStartup" /\ state.tag = "GateStartup"
    /\ GateStartup_timed_out(state, tick.in)

\* C18: on a gate tick that has a local time l and a coordinator time c, the
\* offset is c - l when c >= l, and when c < l the tick does not crash.
C18_OffsetOrError ==
    (/\ tick.pre \in {"GateStartup", "GateReady"}
     /\ tick.in.clock # <<>> /\ tick.in.coord # <<>>
     /\ ~TickTimedOut)
    => /\ ~tick.panic
       /\ tick.in.coord[1] >= tick.in.clock[1]
          => /\ state.tag = "GateReady"
             /\ state.clock_offset = tick.in.coord[1] - tick.in.clock[1]

\* C19: a tick that starts in GateStartup within the timeout moves to
\* GateReady (fresh offset, the gate and link read in the tick, no latched
\* activation) when a coordinator time and a local time are there, and
\* otherwise completes in GateStartup with the start timestamp unchanged.
C19_StartupStep ==
    [][(state.tag = "GateStartup" /\ ~GateStartup_timed_out(state, tick'.in))
       => /\ ~tick'.panic
          /\ IF tick'.in.clock # <<>> /\ tick'.in.coord # <<>>
             THEN state' = [tag |-> "GateReady",
                            is_wifi_connected |-> tick'.in.wifi,
                            gate_state |-> tick'.in.gate,
                            clock_offset |-> tick'.in.coord[1] - tick'.in.clock[1],
                            last_activation_time |-> <<>>]
             ELSE state' = state]_vars

\* C20: when a tick ends, the indicator has been written with the colour of
\* the state the tick committed (or kept), not of the state it started in.
C20_LedShowsCommittedState ==
    (tick.pre # "Boot" /\ ~tick.panic)
    => /\ state.tag = "Init" => tick.led = <<16711680>>
       /\ state.tag = "GateStartup" => tick.led = <<16776960>>
       /\ state.tag = "CoordinatorReady"
          => tick.led = IF tick.in.gates.start_gate.active
                           \/ tick.in.gates.finish_gate.active
                        THEN <<65535>> ELSE <<16777215>>
       /\ state.tag = "GateReady"
          => tick.led = IF state.gate_state = "Active" THEN <<32896>>
                        ELSE IF state.is_wifi_connected THEN <<32768>>
                        ELSE <<8388608>>
\* the tick that leaves GateStartup for GateReady with the gate Active shows
\* the GateReady colour at once
C20_Witness ==
    /\ tick.pre = "GateStartup" /\ tick.commit /\ state.tag = "GateReady"
    /\ state.gate_state = "Active" /\ tick.led = <<32896>>

\* C21: on a tick that starts and ends in GateReady the coordinated time the
\* gate uses is the coordinator time the network collaborator reports in that
\* tick, whatever the local clock reads: an activation is latched at that
\* time, and two activations latched in consecutive ticks under the same
\* coordinator time get the same last-activation time although the local
\* clock may have moved on.
C21_CoordinatedTimeIsCoordinatorTime ==
    [][(state.tag = "GateReady" /\ state'.tag = "GateReady" /\ tick' # tick
        /\ ~tick'.panic /\ tick'.in.gate = "Active")
        => /\ state'.last_activation_time = tick'.in.coord
           /\ tick'.pubs = <<[kind |-> "GateBeacon", addr |-> address,
                              state |-> "Active",
                              last_activation_time |-> tick'.in.coord]>>
           /\ (tick.pre = "GateReady" /\ tick.in.gate = "Active"
               /\ tick.in.coord = tick'.in.coord)
              => state'.last_activation_time = state.last_activation_time]_vars
\* an activation latched at the coordinator time 4 while the local clock
\* reads 3
C21_Witness ==
    /\ tick.pre = "GateReady" /\ state.tag = "GateReady" /\ ~tick.panic
    /\ tick.in.gate = "Active"
    /\ tick.in.clock = <<3>> /\ tick.in.coord = <<4>>
    /\ state.last_activation_time = <<4>>

\* C22: a CoordinatorReady or GateReady tick whose publish call returns an
\* error does not end the process, and it yields the next state, the
\* recorded coordinator time, the dashboard write and the indicator colour
\* that the same tick yields when the publish call succeeds.
C22_PublishFailureOnlyLogged ==
    [][(/\ tick'.pre \in {"CoordinatorReady", "GateReady"}
        /\ tick'.pubs # <<>> /\ ~tick'.in.pub_ok)
       => \E ok \in {Dispatch(state, [tick'.in EXCEPT !.pub_ok = TRUE])} :
             /\ ~tick'.panic /\ alive'
             /\ ~ok.panic
             /\ state' = ok.state
             /\ tick'.pubs = ok.pubs
             /\ tick'.rec = ok.rec
             /\ tick'.dash = ok.dash
             /\ tick'.led = <<LedController_update(ok.state)>>]_vars
\* a coordinator tick whose publish failed: logged, time recorded, snapshot
\* written, still CoordinatorReady
C22_Witness ==
    /\ tick.pre = "CoordinatorReady" /\ ~tick.in.pub_ok
    /\ tick.pubs # <<>> /\ tick.errlog = <<"publish">>
    /\ ~tick.panic /\ alive
    /\ tick.rec = tick.in.clock /\ tick.dash # <<>>
    /\ state.tag = "CoordinatorReady"

\* C23: the demo App leaves Init for Operational with counter 0 on the first
\* not-pressed tick and never returns; every Operational tick sets the
\* counter to 0 when the button is pressed and to the previous counter + 1
\* (a u32) otherwise and publishes that counter in the same tick, so the
\* published counter equals the number of not-pressed Operational ticks since
\* the last pressed one.
C23_DemoCounter ==
    [][/\ demo.state.tag = "Init"
          => /\ ~demo'.panic
             /\ demo'.state = IF demo'.pressed
                              THEN [tag |-> "Init", button_state |-> "NotPressed"]
                              ELSE [tag |-> "Operational",
                                    system_state |->
                                        [counter |-> <<0, 0>>,
                                         acc |-> [x |-> 0, y |-> 0, z |-> 0]]]
       /\ demo.state.tag = "Operational"
          => /\ ~demo'.panic
             /\ demo'.state.tag = "Operational"
             /\ demo'.state.system_state.counter
                   = IF demo'.pressed THEN <<0, 0>>
                     ELSE IF demo.state.system_state.counter = <<65535, 65535>>
                          THEN <<0, 0>>
                     ELSE IF demo.state.system_state.counter[2] = 65535
                          THEN <<demo.state.system_state.counter[1] + 1, 0>>
                     ELSE <<demo.state.system_state.counter[1],
                            demo.state.system_state.counter[2] + 1>>
             /\ demo'.http = <<demo'.state.system_state>>
             /\ demo'.http[1].counter = demo'.run]_vars

====
